---- MODULE Spec2Model ----
(***************************************************************************)
(* Model of auth/rest_role_manager.cc (Scylla, Criteo REST role manager).  *)
(*                                                                         *)
(* The replicated table store is a row store with one row per primary key; *)
(* a row is a row marker plus nullable cells, an INSERT is an upsert of    *)
(* the cells it names.  Each request to the store is one atomic step.      *)
(*                                                                         *)
(* SpecBoot    : the bootstrap coordinators (start / stop / background     *)
(*               task) of several workers racing on the default role row.  *)
(* SpecDir     : the directory facade (find, query_granted, create,        *)
(*               attributes, ...) called by a client.                      *)
(* SpecDirBoot : the role records read and written by the facade while a   *)
(*               coordinator bootstraps the default role.                  *)
(***************************************************************************)
EXTENDS Naturals, FiniteSets, Sequences, TLC

\* ---------------------------------------------------------------- bounds
\* Retries of the bootstrap function one worker may start.
MaxRuns == 2
\* Writes (facade upserts and external writes) in one behaviour of SpecDir.
MaxWrites == 2

\* -------------------------------------------------------------- universe
DEFAULT_SUPERUSER_NAME == "cassandra"
\* The role names of the model (a bound).
Names == {DEFAULT_SUPERUSER_NAME, "alice", "bob"}
\* The workers of the model (a bound), each a (process, shard): process n1
\* runs two shards, process n2 one.
Workers == {<<"n1", 0>>, <<"n1", 1>>, <<"n2", 0>>}
this_shard_id(w) == w[2]
Tables == {"roles", "role_attributes"}
\* What the store answers to one request.
StoreOutcomes == {"ok", "unavailable", "timeout"}

\* A nullable boolean cell.
BoolCells == {"null", "true", "false"}
NoRow == [row |-> FALSE, is_superuser |-> "null", can_login |-> "null", member_of |-> {}]
ToCell(b) == IF b THEN "true" ELSE "false"

VARIABLES
    roles,      \* roles table: role name -> row (row marker and cells)
    attrs,      \* role_attributes table: <<role, name>> -> value or "null"
    tables,     \* tables that exist in the schema
    agreed,     \* the cluster has reached schema agreement
    spc,        \* per worker: where start() is
    tcreated,   \* per worker: tables whose create-if-missing has returned
    tpc,        \* per worker: where the background task (_stopped) is
    as,         \* per worker: _as, abort requested
    stoppc,     \* per worker: where stop() is
    runs,       \* per worker: invocations of the bootstrap function so far
    run,        \* per worker: the current create_default_role_if_missing call
    lastq,      \* the request the latest step issued to the store, if any
    ret,        \* the facade call in progress and its result
    nwrites,    \* writes done so far (SpecDir)
    written,    \* history: what has been written for each role
    seed,       \* history: the default role's row before anything ran
    qa          \* the query_attribute_for_all call in progress, if any

vars == <<roles, attrs, tables, agreed, spc, tcreated, tpc, as, stoppc, runs,
          run, lastq, ret, nwrites, written, seed, qa>>
bootvars == <<spc, tcreated, tpc, as, stoppc, runs, run, tables, agreed>>

\* ------------------------------------------------------- the table store
\* INSERT INTO roles (role, is_superuser, can_login): an upsert of the row
\* marker and of the two cells it names; member_of is not named.
\* Mutant: the insert replaces the whole row, memberships included.
Upsert_replaces_row(r, su, cl) ==
    [roles EXCEPT ![r] = [row |-> TRUE, is_superuser |-> su, can_login |-> cl,
                          member_of |-> {}]]

Upsert(r, su, cl) ==
    [roles EXCEPT ![r] = [@ EXCEPT !.row = TRUE, !.is_superuser = su, !.can_login = cl]]

Query(kind, table, cl, keys) == [kind |-> kind, table |-> table, cl |-> cl, keys |-> keys]
NoQuery == Query("none", "none", "none", {})

\* What the history holds for a role: nothing, or the flags and memberships
\* last written for it.
NeverWritten == [any |-> FALSE, is_superuser |-> FALSE, can_login |-> FALSE, member_of |-> {}]

\* ------------------------------------------------------ consistency policy
\* Mutant: the comparison with the default name is lost.
consistency_for_role_local(role_name) == "LOCAL_ONE"

consistency_for_role(role_name) ==
    IF role_name = DEFAULT_SUPERUSER_NAME THEN "QUORUM" ELSE "LOCAL_ONE"

\* --------------------------------------------------------------- bootstrap
\* Mutant: the negation of is_null() is lost.
has_can_login_null(row) == row.can_login = "null"

\* Mutant: only a true can_login counts as set.
has_can_login_true(row) == row.can_login = "true"

has_can_login(row) == row.can_login # "null"

\* Mutant: the default role is inserted without the login capability.
default_role_values_no_login == [is_superuser |-> "true", can_login |-> "false"]

\* VALUES (?, true, true)
default_role_values == [is_superuser |-> "true", can_login |-> "true"]

\* The default role's row exists and satisfies the predicate; p_of_row is the
\* predicate's value on the row read.
default_role_row_satisfies(p_of_row) ==
    /\ roles[DEFAULT_SUPERUSER_NAME].row
    /\ p_of_row

\* The once-per-process barrier: the task runs on one designated shard.
once_among_shards(w) == this_shard_id(w) = 0

\* One call of create_default_role_if_missing.
\*   qerr    the error the store answered in this call ("none": no error)
\*   result  how the call ended ("running" while it has not)
\*   warned  log.warn was written; created: log.info was written
\*   wrote   the INSERT was issued
\*   afterOk the call started after some call had already succeeded
NewRun(afterOk) ==
    [qerr |-> "none", result |-> "running", warned |-> FALSE, created |-> FALSE,
     wrote |-> FALSE, afterOk |-> afterOk]
NoRun == [qerr |-> "none", result |-> "none", warned |-> FALSE, created |-> FALSE,
          wrote |-> FALSE, afterOk |-> FALSE]

SomeRunSucceeded == \E w \in Workers : tpc[w] = "done"

\* Mutant: the handler logs and swallows the exception.
handle_unavailable_swallow(e) ==
    IF e = "unavailable" THEN [result |-> "ok", warned |-> TRUE]
    ELSE [result |-> e, warned |-> FALSE]

\* handle_exception_type(unavailable_exception): logs and re-raises e; any
\* other exception type passes the handler untouched.
handle_unavailable(e) ==
    [result |-> e, warned |-> (e = "unavailable")]

\* do_after_system_ready: a failed bootstrap function is rescheduled after a
\* back-off, a successful one ends the task.
do_after_system_ready(result) == IF result = "ok" THEN "done" ELSE "backoff"

\* Mutant: start() runs the sequence on every shard.
start_runs_task_every_shard(w) == TRUE

\* start() hands the sequence to once_among_shards.
start_runs_task(w) == once_among_shards(w)

start(w) ==
    /\ spc[w] = "not_started"
    /\ spc' = [spc EXCEPT ![w] = IF start_runs_task(w) THEN "tables" ELSE "started"]
    /\ lastq' = NoQuery
    /\ UNCHANGED <<roles, attrs, tables, agreed, tcreated, tpc, as, stoppc, runs,
                   run, ret, nwrites, written, seed, qa>>

\* One of the two joined create_metadata_table_if_missing calls returns.
create_metadata_table_if_missing(w, t) ==
    /\ spc[w] = "tables"
    /\ t \notin tcreated[w]
    /\ tables' = tables \cup {t}
    /\ tcreated' = [tcreated EXCEPT ![w] = @ \cup {t}]
    /\ lastq' = NoQuery
    /\ UNCHANGED <<roles, attrs, agreed, spc, tpc, as, stoppc, runs, run,
                   ret, nwrites, written, seed, qa>>

\* Mutant: the continuation runs when either creation has returned.
tables_joined_any(w) == tcreated[w] # {}

\* when_all_succeed: both creations have returned.
tables_joined(w) == tcreated[w] = Tables

\* when_all_succeed(...).then: _stopped is assigned the background task, whose
\* first invocation of the bootstrap function begins; start() resolves.
create_metadata_tables_if_missing_then(w) ==
    /\ spc[w] = "tables"
    /\ tables_joined(w)
    /\ spc' = [spc EXCEPT ![w] = "started"]
    /\ tpc' = [tpc EXCEPT ![w] = "wait"]
    /\ runs' = [runs EXCEPT ![w] = 1]
    /\ lastq' = NoQuery
    /\ UNCHANGED <<roles, attrs, tables, agreed, tcreated, as, stoppc, run,
                   ret, nwrites, written, seed, qa>>

\* The external schema manager reports cluster-wide agreement.
schema_agreement ==
    /\ ~agreed
    /\ agreed' = TRUE
    /\ lastq' = NoQuery
    /\ UNCHANGED <<roles, attrs, tables, spc, tcreated, tpc, as, stoppc, runs, run, ret, nwrites, written, seed, qa>>

\* wait_for_schema_agreement(_migration_manager, db, _as).get0()
wait_for_schema_agreement(w) ==
    /\ tpc[w] = "wait"
    /\ \/ /\ as[w]
          /\ tpc' = [tpc EXCEPT ![w] = "abort_requested"]
          /\ run' = run
       \/ /\ ~as[w]
          /\ agreed
          /\ tpc' = [tpc EXCEPT ![w] = "check"]
          /\ run' = [run EXCEPT ![w] = NewRun(SomeRunSucceeded)]
    /\ lastq' = NoQuery
    /\ UNCHANGED <<roles, attrs, tables, agreed, spc, tcreated, as, stoppc, runs, ret, nwrites, written, seed, qa>>

\* The call ends with `result` (after the exception handler): the task ends or
\* is rescheduled.
EndRun(w, r, h) ==
    /\ run' = [run EXCEPT ![w] = [r EXCEPT !.result = h.result, !.warned = h.warned]]
    /\ tpc' = [tpc EXCEPT ![w] = do_after_system_ready(h.result)]

\* default_role_row_satisfies(_qp, &has_can_login).then([this](bool exists) ...
default_role_check(w, o) ==
    /\ tpc[w] = "check"
    /\ lastq' = Query("select", "roles", "QUORUM", {DEFAULT_SUPERUSER_NAME})
    /\ IF o # "ok"
       THEN EndRun(w, [run[w] EXCEPT !.qerr = o], handle_unavailable(o))
       ELSE IF default_role_row_satisfies(has_can_login(roles[DEFAULT_SUPERUSER_NAME]))
            THEN EndRun(w, run[w], [result |-> "ok", warned |-> FALSE])
            ELSE /\ tpc' = [tpc EXCEPT ![w] = "insert"]
                 /\ run' = run
    /\ UNCHANGED <<roles, attrs, tables, agreed, spc, tcreated, as, stoppc, runs,
                   ret, nwrites, written, seed, qa>>

\* INSERT INTO roles (role, is_superuser, can_login) VALUES (?, true, true)
default_role_insert(w, o) ==
    /\ tpc[w] = "insert"
    /\ lastq' = Query("insert", "roles", "QUORUM", {DEFAULT_SUPERUSER_NAME})
    /\ IF o # "ok"
       THEN /\ EndRun(w, [run[w] EXCEPT !.qerr = o, !.wrote = TRUE], handle_unavailable(o))
            /\ UNCHANGED <<roles, written>>
       ELSE /\ roles' = Upsert(DEFAULT_SUPERUSER_NAME, default_role_values.is_superuser,
                                default_role_values.can_login)
            /\ written' = [written EXCEPT ![DEFAULT_SUPERUSER_NAME] =
                              [@ EXCEPT !.any = TRUE, !.is_superuser = TRUE, !.can_login = TRUE]]
            /\ EndRun(w, [run[w] EXCEPT !.wrote = TRUE, !.created = TRUE],
                      [result |-> "ok", warned |-> FALSE])
    /\ UNCHANGED <<attrs, tables, agreed, spc, tcreated, as, stoppc, runs, ret, nwrites,
                   seed, qa>>

\* The back-off sleep of the retry: it ends and the bootstrap function is
\* invoked again, or it is aborted.
retry(w) ==
    /\ tpc[w] = "backoff"
    /\ \/ /\ as[w]
          /\ tpc' = [tpc EXCEPT ![w] = "sleep_aborted"]
          /\ runs' = runs
       \/ /\ ~as[w]
          /\ runs[w] < MaxRuns
          /\ tpc' = [tpc EXCEPT ![w] = "wait"]
          /\ runs' = [runs EXCEPT ![w] = @ + 1]
    /\ lastq' = NoQuery
    /\ UNCHANGED <<roles, attrs, tables, agreed, spc, tcreated, as, stoppc, run, ret, nwrites, written, seed, qa>>

\* The state of the _stopped future.
TaskRunning(w) == tpc[w] \in {"wait", "check", "insert", "backoff"}
Cancellations == {"sleep_aborted", "abort_requested"}

\* Mutant: only sleep_aborted is handled.
stop_result_sleep_only(t) ==
    IF t \in {"none", "done"} THEN "ok"
    ELSE IF t = "sleep_aborted" THEN "ok"
    ELSE t

\* _stopped.handle_exception_type(sleep_aborted).handle_exception_type(
\* abort_requested_exception): what stop() resolves to for an ended task.
stop_result(t) ==
    IF t \in {"none", "done"} THEN "ok"
    ELSE IF t = "sleep_aborted" THEN "ok"
    ELSE IF t = "abort_requested" THEN "ok"
    ELSE t

\* Mutant: stop() does not request the abort.
request_abort_missing(w) == as

\* _as.request_abort()
request_abort(w) == [as EXCEPT ![w] = TRUE]

stop(w) ==
    /\ stoppc[w] = "no"
    /\ as' = request_abort(w)
    /\ stoppc' = [stoppc EXCEPT ![w] =
                     IF TaskRunning(w) THEN "waiting" ELSE stop_result(tpc[w])]
    /\ lastq' = NoQuery
    /\ UNCHANGED <<roles, attrs, tables, agreed, spc, tcreated, tpc, runs, run, ret, nwrites, written, seed, qa>>

\* The task stop() waits for has ended.
stop_done(w) ==
    /\ stoppc[w] = "waiting"
    /\ ~TaskRunning(w)
    /\ stoppc' = [stoppc EXCEPT ![w] = stop_result(tpc[w])]
    /\ lastq' = NoQuery
    /\ UNCHANGED <<roles, attrs, tables, agreed, spc, tcreated, tpc, as, runs, run, ret, nwrites, written, seed, qa>>


\* ---------------------------------------------------------- the directory
AttrNames == {"x"}
AttrValues == {"1", "3"}
RecursiveModes == {"recursive_role_query::yes", "recursive_role_query::no"}

\* Results of the asynchronous calls: a value or an exception.
Value(v) == [ok |-> TRUE, val |-> v]
Throw(type, name) == [ok |-> FALSE, err |-> [type |-> type, name |-> name]]

\* row.get_or<bool>(column, dflt)
get_or_bool(cell, dflt) == IF cell = "null" THEN dflt ELSE cell = "true"

\* std::optional<record>
Nothing == [some |-> FALSE]
Some(rec) == [some |-> TRUE, rec |-> rec]

\* Mutant: the two flags are read into each other's field.
find_record_swapped(role_name) ==
    IF ~roles[role_name].row
    THEN Nothing
    ELSE Some([name |-> role_name,
               is_superuser |-> get_or_bool(roles[role_name].can_login, FALSE),
               can_login |-> get_or_bool(roles[role_name].is_superuser, FALSE),
               member_of |-> roles[role_name].member_of])

find_record(role_name) ==
    IF ~roles[role_name].row
    THEN Nothing
    ELSE Some([name |-> role_name,
               is_superuser |-> get_or_bool(roles[role_name].is_superuser, FALSE),
               can_login |-> get_or_bool(roles[role_name].can_login, FALSE),
               member_of |-> IF roles[role_name].member_of # {}
                             THEN roles[role_name].member_of
                             ELSE {}])

\* Mutant: a missing record is not detected and a default record is returned.
require_record_default(role_name) ==
    LET mr == find_record(role_name) IN
    IF ~mr.some
    THEN Value([name |-> role_name, is_superuser |-> FALSE, can_login |-> FALSE,
                member_of |-> {}])
    ELSE Value(mr.rec)

require_record(role_name) ==
    LET mr == find_record(role_name) IN
    IF ~mr.some THEN Throw("nonexistant_role", role_name) ELSE Value(mr.rec)

collect_roles(grantee_name, role_set) ==
    LET r == require_record(grantee_name) IN
    IF ~r.ok THEN r ELSE Value(role_set \cup r.val.member_of)

\* Mutant: the recursive mode follows the memberships of the roles collected.
MembersOf(S) == S \cup UNION {roles[r].member_of : r \in S}
query_granted_recursive(grantee_name, m) ==
    LET r == collect_roles(grantee_name, {grantee_name}) IN
    IF r.ok /\ m = "recursive_role_query::yes"
    THEN Value(MembersOf(MembersOf(r.val)))
    ELSE r

query_granted(grantee_name, m) == collect_roles(grantee_name, {grantee_name})

\* Mutant: only the rows' own names are collected.
query_all_roles_rows_only == {n \in Names : roles[n].row}

\* roles.insert(role name); roles.insert(member) for each member_of entry.
query_all_roles ==
    UNION {{r} \cup roles[r].member_of : r \in {n \in Names : roles[n].row}}

\* Mutant: exists() looks the role up.
role_exists_lookup(role_name) == find_record(role_name).some

\* exists(): make_ready_future<bool>(true)
role_exists(role_name) == TRUE

\* The level query_all passes to execute_internal.
scan_consistency == "QUORUM"

Idle == [op |-> "idle"]
Call(op, arg, res) == [op |-> op, arg |-> arg, res |-> res]
CallMode(op, arg, m, res) == [op |-> op, arg |-> arg, mode |-> m, res |-> res]

\* Each read is one request to the store; its result is handed to the caller.
Client_find(r) ==
    /\ ret = Idle
    /\ ret' = Call("find", r, Value(find_record(r)))
    /\ lastq' = Query("select", "roles", consistency_for_role(r), {r})
    /\ UNCHANGED <<roles, attrs, nwrites, written, seed, qa>>
    /\ UNCHANGED bootvars

Client_require(r) ==
    /\ ret = Idle
    /\ ret' = Call("require", r, require_record(r))
    /\ lastq' = Query("select", "roles", consistency_for_role(r), {r})
    /\ UNCHANGED <<roles, attrs, nwrites, written, seed, qa>>
    /\ UNCHANGED bootvars

is_superuser_value(mr) == IF mr.some THEN mr.rec.is_superuser ELSE FALSE
can_login_value(mr) == IF mr.some THEN mr.rec.can_login ELSE FALSE

is_superuser(r) ==
    /\ ret = Idle
    /\ ret' = Call("is_superuser", r, Value(is_superuser_value(find_record(r))))
    /\ lastq' = Query("select", "roles", consistency_for_role(r), {r})
    /\ UNCHANGED <<roles, attrs, nwrites, written, seed, qa>>
    /\ UNCHANGED bootvars

can_login(r) ==
    /\ ret = Idle
    /\ ret' = Call("can_login", r, Value(can_login_value(find_record(r))))
    /\ lastq' = Query("select", "roles", consistency_for_role(r), {r})
    /\ UNCHANGED <<roles, attrs, nwrites, written, seed, qa>>
    /\ UNCHANGED bootvars

Client_query_granted(r, m) ==
    /\ ret = Idle
    /\ ret' = CallMode("query_granted", r, m, query_granted(r, m))
    /\ lastq' = Query("select", "roles", consistency_for_role(r), {r})
    /\ UNCHANGED <<roles, attrs, nwrites, written, seed, qa>>
    /\ UNCHANGED bootvars

exists(r) ==
    /\ ret = Idle
    /\ ret' = Call("exists", r, Value(role_exists(r)))
    /\ lastq' = NoQuery
    /\ UNCHANGED <<roles, attrs, nwrites, written, seed, qa>>
    /\ UNCHANGED bootvars

query_all ==
    /\ ret = Idle
    /\ ret' = Call("query_all", "*", Value(query_all_roles))
    /\ lastq' = Query("scan", "roles", scan_consistency, {n \in Names : roles[n].row})
    /\ UNCHANGED <<roles, attrs, nwrites, written, seed, qa>>
    /\ UNCHANGED bootvars

\* Mutant: the request has lost its role key.
get_attribute_value_any_role(r, a) ==
    IF \E n \in Names : attrs[<<n, a>>] # "null"
    THEN Some(attrs[<<CHOOSE n \in Names : attrs[<<n, a>>] # "null", a>>])
    ELSE Nothing

get_attribute_value(r, a) ==
    IF attrs[<<r, a>>] # "null" THEN Some(attrs[<<r, a>>]) ELSE Nothing

get_attribute(r, a) ==
    /\ ret = Idle
    /\ ret' = Call("get_attribute", r, Value(get_attribute_value(r, a)))
    /\ lastq' = Query("select", "role_attributes", "default", {r})
    /\ UNCHANGED <<roles, attrs, nwrites, written, seed, qa>>
    /\ UNCHANGED bootvars

\* query_attribute_for_all: no call, or the attribute asked for, the roles
\* query_all returned, those whose get_attribute is still pending and the
\* attribute_vals filled so far. nw0 and snaps are history: the number of
\* writes when the call began, and the attribute of the call's roles as it
\* was stored at every instant since.
NoCall == [pc |-> "none", attr |-> "none", roles |-> {}, todo |-> {}, got |-> {},
           nw0 |-> 0, snaps |-> {}]

Stored(table, a, rs) ==
    {<<r, table[<<r, a>>]>> : r \in {n \in rs : table[<<n, a>>] # "null"}}

Observed(table) ==
    IF qa.pc = "none" THEN qa
    ELSE [qa EXCEPT !.snaps = @ \cup {Stored(table, qa.attr, qa.roles)}]

\* Mutant: an entry is emplaced for a role without a value too.
emplace_without_value(role_to_att_val, role, att_val) ==
    role_to_att_val \cup {<<role, IF att_val.some THEN att_val.rec ELSE "">>}

\* if (att_val) { role_to_att_val.emplace(role, *att_val); }
emplace_if_value(role_to_att_val, role, att_val) ==
    IF att_val.some THEN role_to_att_val \cup {<<role, att_val.rec>>}
    ELSE role_to_att_val

\* query_all().then(...): the scan returns and a get_attribute is issued for
\* every role of it.
query_attribute_for_all(a) ==
    /\ qa.pc = "none"
    /\ qa' = [pc |-> "reading", attr |-> a, roles |-> query_all_roles,
              todo |-> query_all_roles, got |-> {}, nw0 |-> nwrites,
              snaps |-> {Stored(attrs, a, query_all_roles)}]
    /\ lastq' = Query("scan", "roles", scan_consistency, {n \in Names : roles[n].row})
    /\ UNCHANGED <<roles, attrs, ret, nwrites, written, seed>>
    /\ UNCHANGED bootvars

\* get_attribute(role, attribute_name).then(...): one of the pending reads
\* returns, in any order.
query_attribute_for_all_get(role) ==
    /\ qa.pc = "reading"
    /\ role \in qa.todo
    /\ qa' = [qa EXCEPT !.todo = @ \ {role},
                        !.got = emplace_if_value(@, role, get_attribute_value(role, qa.attr))]
    /\ lastq' = Query("select", "role_attributes", "default", {role})
    /\ UNCHANGED <<roles, attrs, ret, nwrites, written, seed>>
    /\ UNCHANGED bootvars

\* parallel_for_each(...).then: make_ready_future<attribute_vals>(...)
query_attribute_for_all_ready ==
    /\ qa.pc = "reading"
    /\ qa.todo = {}
    /\ qa' = [qa EXCEPT !.pc = "ready"]
    /\ lastq' = NoQuery
    /\ UNCHANGED <<roles, attrs, ret, nwrites, written, seed>>
    /\ UNCHANGED bootvars

\* The caller takes the attribute_vals.
query_attribute_for_all_return ==
    /\ qa.pc = "ready"
    /\ qa' = NoCall
    /\ lastq' = NoQuery
    /\ UNCHANGED <<roles, attrs, ret, nwrites, written, seed>>
    /\ UNCHANGED bootvars

\* INSERT INTO roles (role, is_superuser, can_login) VALUES (?, ?, ?)
create_or_replace(op, r, c) ==
    /\ ret = Idle
    /\ nwrites < MaxWrites
    /\ nwrites' = nwrites + 1
    /\ roles' = Upsert(r, ToCell(c.is_superuser), ToCell(c.can_login))
    /\ written' = [written EXCEPT ![r] = [@ EXCEPT !.any = TRUE,
                       !.is_superuser = c.is_superuser, !.can_login = c.can_login]]
    /\ ret' = Call(op, r, Value("done"))
    /\ lastq' = Query("insert", "roles", consistency_for_role(r), {r})
    /\ UNCHANGED <<attrs, seed, qa>>
    /\ UNCHANGED bootvars

create(r, c) == create_or_replace("create", r, c)

\* The external authenticator writes a role's row with its memberships:
\* INSERT INTO roles (role, member_of) VALUES (?, ?).
external_write(r, members) ==
    /\ ret = Idle
    /\ nwrites < MaxWrites
    /\ nwrites' = nwrites + 1
    /\ roles' = [roles EXCEPT ![r] = [@ EXCEPT !.row = TRUE, !.member_of = members]]
    /\ written' = [written EXCEPT ![r] = [@ EXCEPT !.any = TRUE, !.member_of = members]]
    /\ lastq' = NoQuery
    /\ UNCHANGED <<attrs, ret, seed, qa>>
    /\ UNCHANGED bootvars

\* exists(role_name).then: throw nonexistant_role, or upsert the value.
set_attribute(r, a, v) ==
    /\ ret = Idle
    /\ nwrites < MaxWrites
    /\ nwrites' = nwrites + 1
    /\ IF ~role_exists(r)
       THEN /\ ret' = Call("set_attribute", r, Throw("nonexistant_role", r))
            /\ UNCHANGED <<attrs, lastq>>
       ELSE /\ attrs' = [attrs EXCEPT ![<<r, a>>] = v]
            /\ ret' = Call("set_attribute", r, Value("done"))
            /\ lastq' = Query("insert", "role_attributes", "default", {r})
    /\ qa' = Observed(attrs')
    /\ UNCHANGED <<roles, written, seed>>
    /\ UNCHANGED bootvars

\* exists(role_name).then: throw nonexistant_role, or delete the value.
remove_attribute(r, a) ==
    /\ ret = Idle
    /\ nwrites < MaxWrites
    /\ nwrites' = nwrites + 1
    /\ IF ~role_exists(r)
       THEN /\ ret' = Call("remove_attribute", r, Throw("nonexistant_role", r))
            /\ UNCHANGED <<attrs, lastq>>
       ELSE /\ attrs' = [attrs EXCEPT ![<<r, a>>] = "null"]
            /\ ret' = Call("remove_attribute", r, Value("done"))
            /\ lastq' = Query("delete", "role_attributes", "default", {r})
    /\ qa' = Observed(attrs')
    /\ UNCHANGED <<roles, written, seed>>
    /\ UNCHANGED bootvars

\* role_config_update: each field is set or left out ("null").
role_config_update == [is_superuser : BoolCells, can_login : BoolCells]
Call2(op, arg, arg2, res) == [op |-> op, arg |-> arg, arg2 |-> arg2, res |-> res]

\* Mutant: alter applies the fields the update sets.
alter_applies(r, u) ==
    /\ ret = Idle
    /\ ret' = Call2("alter", r, u, Value("done"))
    /\ roles' = Upsert(r, IF u.is_superuser = "null" THEN roles[r].is_superuser
                          ELSE u.is_superuser,
                       IF u.can_login = "null" THEN roles[r].can_login ELSE u.can_login)
    /\ lastq' = Query("insert", "roles", consistency_for_role(r), {r})
    /\ UNCHANGED <<attrs, nwrites, written, seed, qa>>
    /\ UNCHANGED bootvars

\* alter: return make_ready_future<>()
alter(r, u) ==
    /\ ret = Idle
    /\ ret' = Call2("alter", r, u, Value("done"))
    /\ lastq' = NoQuery
    /\ UNCHANGED <<roles, attrs, nwrites, written, seed, qa>>
    /\ UNCHANGED bootvars

\* throw std::logic_error("Not Implemented")
not_implemented == Throw("logic_error", "Not Implemented")

\* Mutant: drop deletes the role's row.
drop_deletes(r) ==
    /\ ret = Idle
    /\ ret' = Call("drop", r, Value("done"))
    /\ roles' = [roles EXCEPT ![r] = NoRow]
    /\ lastq' = Query("delete", "roles", consistency_for_role(r), {r})
    /\ UNCHANGED <<attrs, nwrites, written, seed, qa>>
    /\ UNCHANGED bootvars

drop(r) ==
    /\ ret = Idle
    /\ ret' = Call("drop", r, not_implemented)
    /\ lastq' = NoQuery
    /\ UNCHANGED <<roles, attrs, nwrites, written, seed, qa>>
    /\ UNCHANGED bootvars

grant(g, r) ==
    /\ ret = Idle
    /\ ret' = Call2("grant", g, r, not_implemented)
    /\ lastq' = NoQuery
    /\ UNCHANGED <<roles, attrs, nwrites, written, seed, qa>>
    /\ UNCHANGED bootvars

revoke(g, r) ==
    /\ ret = Idle
    /\ ret' = Call2("revoke", g, r, not_implemented)
    /\ lastq' = NoQuery
    /\ UNCHANGED <<roles, attrs, nwrites, written, seed, qa>>
    /\ UNCHANGED bootvars

\* The caller takes the result.
Return ==
    /\ ret # Idle
    /\ ret' = Idle
    /\ lastq' = NoQuery
    /\ UNCHANGED <<roles, attrs, nwrites, written, seed, qa>>
    /\ UNCHANGED bootvars

\* Rows the default role may have before any coordinator starts: none, one an
\* external writer gave memberships only, one with both flags false, and the
\* row an earlier bootstrap left.
InitDefaultRows ==
    { NoRow,
      [NoRow EXCEPT !.row = TRUE, !.member_of = {"alice"}],
      [NoRow EXCEPT !.row = TRUE, !.is_superuser = "false", !.can_login = "false"],
      [NoRow EXCEPT !.row = TRUE, !.is_superuser = "true", !.can_login = "true"] }

HistoryOf(row) ==
    [any |-> row.row, is_superuser |-> row.is_superuser = "true",
     can_login |-> row.can_login = "true", member_of |-> row.member_of]

InitCoordinators ==
    /\ spc = [w \in Workers |-> "not_started"]
    /\ tcreated = [w \in Workers |-> {}]
    /\ tpc = [w \in Workers |-> "none"]
    /\ as = [w \in Workers |-> FALSE]
    /\ stoppc = [w \in Workers |-> "no"]
    /\ runs = [w \in Workers |-> 0]
    /\ run = [w \in Workers |-> NoRun]

InitBoot ==
    /\ \E d \in InitDefaultRows :
          roles = [r \in Names |-> IF r = DEFAULT_SUPERUSER_NAME THEN d ELSE NoRow]
    /\ written = [r \in Names |-> HistoryOf(roles[r])]
    /\ seed = roles[DEFAULT_SUPERUSER_NAME]
    /\ qa = NoCall
    /\ attrs = [k \in Names \X AttrNames |-> "null"]
    /\ tables = {}
    /\ agreed = FALSE
    /\ InitCoordinators
    /\ lastq = NoQuery
    /\ ret = Idle
    /\ nwrites = 0

NextBoot ==
    \/ \E w \in Workers : start(w)
    \/ \E w \in Workers, t \in Tables : create_metadata_table_if_missing(w, t)
    \/ \E w \in Workers : create_metadata_tables_if_missing_then(w)
    \/ schema_agreement
    \/ \E w \in Workers : wait_for_schema_agreement(w)
    \/ \E w \in Workers, o \in StoreOutcomes : default_role_check(w, o)
    \/ \E w \in Workers, o \in StoreOutcomes : default_role_insert(w, o)
    \/ \E w \in Workers : retry(w)
    \/ \E w \in Workers : stop(w)
    \/ \E w \in Workers : stop_done(w)

SpecBoot == InitBoot /\ [][NextBoot]_vars

\* The bootstrap without stop(), with a store that is available at quorum
\* from some point on: a request fails only while the task can still be
\* rescheduled within MaxRuns.
StoreOutcomesNow(w) == IF runs[w] < MaxRuns THEN StoreOutcomes ELSE {"ok"}

NextLive ==
    \/ \E w \in Workers : start(w)
    \/ \E w \in Workers, t \in Tables : create_metadata_table_if_missing(w, t)
    \/ \E w \in Workers : create_metadata_tables_if_missing_then(w)
    \/ schema_agreement
    \/ \E w \in Workers : wait_for_schema_agreement(w)
    \/ \E w \in Workers : \E o \in StoreOutcomesNow(w) : default_role_check(w, o)
    \/ \E w \in Workers : \E o \in StoreOutcomesNow(w) : default_role_insert(w, o)
    \/ \E w \in Workers : retry(w)

\* Every process starts, schema agreement is reached, pending continuations
\* run, an available store answers, and the back-off sleep ends.
FairLive ==
    /\ WF_vars(schema_agreement)
    /\ \A w \in Workers :
          /\ WF_vars(start(w))
          /\ WF_vars(\E t \in Tables : create_metadata_table_if_missing(w, t))
          /\ WF_vars(create_metadata_tables_if_missing_then(w))
          /\ WF_vars(wait_for_schema_agreement(w))
          /\ WF_vars(default_role_check(w, "ok"))
          /\ WF_vars(default_role_insert(w, "ok"))
          /\ WF_vars(retry(w))

SpecLive == InitBoot /\ [][NextLive]_vars /\ FairLive

role_config == [is_superuser : BOOLEAN, can_login : BOOLEAN]

InitDir ==
    /\ roles = [r \in Names |-> NoRow]
    /\ written = [r \in Names |-> NeverWritten]
    /\ seed = NoRow
    /\ qa = NoCall
    /\ attrs = [k \in Names \X AttrNames |-> "null"]
    /\ tables = {}
    /\ agreed = TRUE
    /\ InitCoordinators
    /\ lastq = NoQuery
    /\ ret = Idle
    /\ nwrites = 0

\* The coordinator that bootstraps while the directory is in use; the
\* cluster's schema is agreed and the store answers its requests.
DirCoordinator == <<"n1", 0>>

\* A bootstrap step of the coordinator, between two calls of the client.
Bootstrap(w) ==
    /\ ret = Idle
    /\ \/ start(w)
       \/ \E t \in Tables : create_metadata_table_if_missing(w, t)
       \/ create_metadata_tables_if_missing_then(w)
       \/ wait_for_schema_agreement(w)
       \/ default_role_check(w, "ok")
       \/ default_role_insert(w, "ok")

NextDir ==
    \/ \E r \in Names : Client_find(r)
    \/ \E r \in Names : Client_require(r)
    \/ \E r \in Names : is_superuser(r)
    \/ \E r \in Names : can_login(r)
    \/ \E r \in Names, m \in RecursiveModes : Client_query_granted(r, m)
    \/ \E r \in Names : exists(r)
    \/ query_all
    \/ \E r \in Names, a \in AttrNames : get_attribute(r, a)
    \/ \E r \in Names, c \in role_config : create_or_replace("create_or_replace", r, c)
    \/ \E r \in Names, c \in role_config : create(r, c)
    \/ \E r \in Names, members \in SUBSET Names : external_write(r, members)
    \/ \E r \in Names, a \in AttrNames, v \in AttrValues : set_attribute(r, a, v)
    \/ \E r \in Names, a \in AttrNames : remove_attribute(r, a)
    \/ \E r \in Names, u \in role_config_update : alter(r, u)
    \/ \E r \in Names : drop(r)
    \/ \E g \in Names, r \in Names : grant(g, r)
    \/ \E g \in Names, r \in Names : revoke(g, r)
    \/ Return

SpecDir == InitDir /\ [][NextDir]_vars

\* The attribute operations over a store that already holds roles: alice and
\* the default role have rows, alice with or without bob as a group, bob has
\* no row; alice and the default role may have a value of the attribute.
InitAttr ==
    /\ \E members \in {{}, {"bob"}} :
          roles = [r \in Names |->
                     IF r = "alice"
                     THEN [NoRow EXCEPT !.row = TRUE, !.member_of = members]
                     ELSE IF r = DEFAULT_SUPERUSER_NAME
                          THEN [NoRow EXCEPT !.row = TRUE, !.is_superuser = "true",
                                             !.can_login = "true"]
                          ELSE NoRow]
    /\ written = [r \in Names |-> HistoryOf(roles[r])]
    /\ seed = roles[DEFAULT_SUPERUSER_NAME]
    /\ \E va \in {"null", "1"}, vc \in {"null", "3"} :
          attrs = [k \in Names \X AttrNames |->
                     IF k[1] = "alice" THEN va
                     ELSE IF k[1] = DEFAULT_SUPERUSER_NAME THEN vc
                     ELSE "null"]
    /\ qa = NoCall
    /\ tables = Tables
    /\ agreed = TRUE
    /\ InitCoordinators
    /\ lastq = NoQuery
    /\ ret = Idle
    /\ nwrites = 0

NextAttr ==
    \/ \E a \in AttrNames : query_attribute_for_all(a)
    \/ \E r \in Names : query_attribute_for_all_get(r)
    \/ query_attribute_for_all_ready
    \/ query_attribute_for_all_return
    \/ \E r \in Names, a \in AttrNames : get_attribute(r, a)
    \/ \E r \in Names, a \in AttrNames, v \in AttrValues : set_attribute(r, a, v)
    \/ \E r \in Names, a \in AttrNames : remove_attribute(r, a)
    \/ Return

SpecAttr == InitAttr /\ [][NextAttr]_vars

\* The directory's role records read and written while a coordinator
\* bootstraps the default role.
NextDirBoot ==
    \/ \E r \in Names : Client_find(r)
    \/ \E r \in Names : is_superuser(r)
    \/ \E r \in Names : can_login(r)
    \/ query_all
    \/ \E r \in Names, c \in role_config : create_or_replace("create_or_replace", r, c)
    \/ \E r \in Names, c \in role_config : create(r, c)
    \/ \E r \in Names, members \in SUBSET Names : external_write(r, members)
    \/ \E r \in Names : drop(r)
    \/ Return
    \/ Bootstrap(DirCoordinator)

SpecDirBoot == InitDir /\ [][NextDirBoot]_vars

\* ------------------------------------------------------------ coordinators
Coordinator1 == <<"n1", 0>>
Coordinator2 == <<"n2", 0>>
Process(w) == w[1]
DefaultRow == roles[DEFAULT_SUPERUSER_NAME]

\* C1: from a roles table with no default-role row, once the bootstraps of
\* two coordinators of different processes have both finished, whatever the
\* interleaving of their checks and inserts, the store holds exactly one
\* record, the default superuser's, with is_superuser and can_login true.
C1_TwoCoordinatorsOneDefaultRole ==
    (seed = NoRow /\ tpc[Coordinator1] = "done" /\ tpc[Coordinator2] = "done")
        => /\ {r \in Names : roles[r].row} = {DEFAULT_SUPERUSER_NAME}
           /\ DefaultRow.is_superuser = "true"
           /\ DefaultRow.can_login = "true"

\* Both coordinators read "no row" and both issued the insert.
C1_Witness ==
    /\ seed = NoRow
    /\ tpc[Coordinator1] = "done" /\ tpc[Coordinator2] = "done"
    /\ run[Coordinator1].created /\ run[Coordinator2].created

\* C2: a call of create_default_role_if_missing that starts after another
\* call has succeeded issues no insert.
C2_SecondRunWritesNothing ==
    \A w \in Workers : run[w].afterOk => ~run[w].wrote

\* A first call inserted the row, a later call found it and succeeded.
C2_Witness ==
    \E w1, w2 \in Workers :
        /\ run[w1].created
        /\ run[w2].afterOk /\ run[w2].result = "ok" /\ ~run[w2].wrote

\* C3: a call whose check or insert was answered "unavailable" ends with that
\* error after a warning, the task is not ended as successful by it, and a
\* task that has ended successfully did so by a call that met no store error.
C3_UnavailableIsReraised ==
    \A w \in Workers :
        /\ run[w].qerr = "unavailable"
              => /\ run[w].result = "unavailable"
                 /\ run[w].warned
                 /\ tpc[w] # "done"
        /\ tpc[w] = "done" => run[w].qerr = "none" /\ run[w].result = "ok"

\* The insert of a call was answered "unavailable".
C3_Witness ==
    \E w \in Workers :
        run[w].qerr = "unavailable" /\ run[w].wrote /\ run[w].result = "unavailable"

\* C4: stop() can be called in every coordinator state; it requests abort,
\* and once it has completed for a task that ended with sleep_aborted or
\* abort_requested it has completed successfully.
C4_StopSwallowsCancellation ==
    \A w \in Workers :
        /\ stoppc[w] = "no" => ENABLED stop(w)
        /\ stoppc[w] # "no" => as[w]
        /\ (stoppc[w] \notin {"no", "waiting"} /\ tpc[w] \in Cancellations)
              => stoppc[w] = "ok"

\* stop() waited for a task that ended with abort_requested.
C4_Witness ==
    \E w \in Workers :
        stoppc[w] = "ok" /\ tpc[w] = "abort_requested" /\ runs[w] = 2

\* C5: the workers of one process never both enter the sequence (table
\* creation, schema wait, default-role check and insert), and once all of
\* them have started exactly one has.
RanSequence(w) == spc[w] = "tables" \/ tcreated[w] # {} \/ tpc[w] # "none"
C5_OnceAmongShards ==
    \A w1, w2 \in Workers :
        (w1 # w2 /\ Process(w1) = Process(w2)) =>
            /\ ~(RanSequence(w1) /\ RanSequence(w2))
            /\ (spc[w1] = "started" /\ spc[w2] = "started")
                  => (RanSequence(w1) \/ RanSequence(w2))

\* Both shards of n1 have started and one of them completed the bootstrap.
C5_Witness ==
    /\ spc[<<"n1", 0>>] = "started" /\ spc[<<"n1", 1>>] = "started"
    /\ tpc[<<"n1", 0>>] = "done"
    /\ ~RanSequence(<<"n1", 1>>)

\* ---------------------------------------------------------------- directory
\* The record the history holds for a role.
Latest(r) ==
    IF written[r].any
    THEN Some([name |-> r, is_superuser |-> written[r].is_superuser,
               can_login |-> written[r].can_login, member_of |-> written[r].member_of])
    ELSE Nothing

\* C6: after any sequence of writes (create, create_or_replace, the bootstrap
\* insert, external writes) find(r) returns the record last written for r, or
\* nothing if r was never written; is_superuser(r) and can_login(r) return
\* that record's flags, or false when there is none.
C6_FindReturnsLatest ==
    /\ ret.op = "find" => ret.res = Value(Latest(ret.arg))
    /\ ret.op = "is_superuser"
          => ret.res = Value(written[ret.arg].any /\ written[ret.arg].is_superuser)
    /\ ret.op = "can_login"
          => ret.res = Value(written[ret.arg].any /\ written[ret.arg].can_login)

\* find of the default role after an external writer gave it memberships and
\* the bootstrap's insert set its flags.
C6_Witness ==
    /\ ret.op = "find" /\ ret.arg = DEFAULT_SUPERUSER_NAME
    /\ run[<<"n1", 0>>].created
    /\ ret.res.val.some
    /\ ret.res.val.rec.member_of # {}
    /\ ret.res.val.rec.is_superuser

\* C7 as stated: a request on the roles table at QUORUM touches no record but
\* the default superuser's, and any other role's record is accessed at
\* LOCAL_ONE.
C7_OnlyDefaultAtQuorum ==
    lastq.table = "roles" =>
        \A k \in lastq.keys : k # DEFAULT_SUPERUSER_NAME => lastq.cl = "LOCAL_ONE"

\* C7 amended: a request for one role's record (find_record, the upsert of
\* create / create_or_replace, the bootstrap's check and insert) is at QUORUM
\* for the default superuser and at LOCAL_ONE for any other role; the scan of
\* query_all reads every role's record at QUORUM.
C7_PointRequestsByPolicy ==
    lastq.table = "roles" =>
        IF lastq.kind = "scan"
        THEN lastq.cl = "QUORUM"
        ELSE \E k \in Names :
                /\ lastq.keys = {k}
                /\ lastq.cl = IF k = DEFAULT_SUPERUSER_NAME THEN "QUORUM" ELSE "LOCAL_ONE"

\* query_all reads the record of a role other than the default at QUORUM.
C7_Witness ==
    /\ lastq.kind = "scan" /\ lastq.cl = "QUORUM"
    /\ "alice" \in lastq.keys
    /\ ret.op = "query_all"

\* C8: for a grantee r that has a record, query_granted(r, mode) is r united
\* with the member_of of r's record, in both modes: r is in it, and a role
\* reached only through two membership steps is not.
C8_QueryGrantedIsDirect ==
    (ret.op = "query_granted" /\ written[ret.arg].any)
        => ret.res = Value({ret.arg} \cup written[ret.arg].member_of)

\* alice is a member of bob, bob of cassandra; the recursive mode gives
\* {alice, bob}.
C8_Witness ==
    /\ ret.op = "query_granted" /\ ret.arg = "alice"
    /\ ret.mode = "recursive_role_query::yes"
    /\ written["alice"].member_of = {"bob"}
    /\ written["bob"].member_of = {DEFAULT_SUPERUSER_NAME}
    /\ ret.res = Value({"alice", "bob"})

\* C9: require(r), and so query_granted(r), of a role with no row fails with
\* nonexistant_role(r) and returns nothing; for a role with a row the record
\* has its name, both flags (false for a null cell) and member_of (empty for
\* a null cell).
Populated(rec, r) ==
    /\ DOMAIN rec = {"name", "is_superuser", "can_login", "member_of"}
    /\ rec.name = r
    /\ rec.is_superuser = (roles[r].is_superuser = "true")
    /\ rec.can_login = (roles[r].can_login = "true")
    /\ rec.member_of = roles[r].member_of
C9_RequireAbsentFails ==
    /\ \A r \in Names :
          IF written[r].any
          THEN require_record(r).ok /\ Populated(require_record(r).val, r)
          ELSE require_record(r) = Throw("nonexistant_role", r)
    /\ (ret.op \in {"require", "query_granted"} /\ ~written[ret.arg].any)
          => ret.res = Throw("nonexistant_role", ret.arg)
    /\ (ret.op = "require" /\ written[ret.arg].any)
          => ret.res.ok /\ Populated(ret.res.val, ret.arg)

\* query_granted of a role with no row, while another role has one.
C9_Witness ==
    /\ ret.op = "query_granted"
    /\ ~roles[ret.arg].row
    /\ ret.res = Throw("nonexistant_role", ret.arg)
    /\ \E r \in Names : roles[r].row /\ ret.arg \in roles[r].member_of

\* C10: exists(r) is true for every role name in every store state, and
\* set_attribute / remove_attribute never fail with nonexistant_role, also for
\* a role with no row.
C10_ExistsAlwaysTrue ==
    /\ \A r \in Names : role_exists(r)
    /\ ret.op = "exists" => ret.res = Value(TRUE)
    /\ ret.op \in {"set_attribute", "remove_attribute"} => ret.res = Value("done")

\* set_attribute stored a value for a role that has no row.
C10_Witness ==
    /\ ret.op = "set_attribute"
    /\ ~roles[ret.arg].row
    /\ ret.res.ok
    /\ \E a \in AttrNames : attrs[<<ret.arg, a>>] # "null"

\* C11: alter(r, update) succeeds for every r and every update and leaves the
\* roles table and the attributes table as they were: no flag, no member_of
\* changes and no row appears for an absent r.
C11_AlterChangesNothing ==
    [][(ret = Idle /\ ret'.op = "alter")
          => /\ ret'.res = Value("done")
             /\ roles' = roles
             /\ attrs' = attrs]_vars

\* alter of an existing non-superuser with an update that sets is_superuser.
C11_Witness ==
    /\ ret.op = "alter"
    /\ ret.res = Value("done")
    /\ roles[ret.arg].row
    /\ roles[ret.arg].is_superuser = "false"
    /\ ret.arg2.is_superuser = "true"

\* C12: drop, grant and revoke fail with the "Not Implemented" logic_error
\* for every input and leave both tables as they were.
C12_Unimplemented ==
    [][(ret = Idle /\ ret'.op \in {"drop", "grant", "revoke"})
          => /\ ret'.res = Throw("logic_error", "Not Implemented")
             /\ roles' = roles
             /\ attrs' = attrs]_vars

\* drop of a role that has a row.
C12_Witness ==
    /\ ret.op = "drop"
    /\ ~ret.res.ok
    /\ roles[ret.arg].row
    /\ roles[ret.arg].member_of # {}

\* C13: query_all returns the union, over the rows of the roles table, of the
\* row's role name and the names in its member_of; a name that occurs only in
\* a member_of is included.
C13_QueryAllIncludesMembers ==
    ret.op = "query_all"
        => ret.res = Value({r \in Names : written[r].any}
                           \cup UNION {written[r].member_of : r \in Names})

\* bob occurs only in alice's member_of and is returned.
C13_Witness ==
    /\ ret.op = "query_all"
    /\ roles["alice"].row /\ "bob" \in roles["alice"].member_of
    /\ ~roles["bob"].row
    /\ "bob" \in ret.res.val
    /\ \E r \in Names : r \notin ret.res.val

\* ------------------------------------------------------- coordinator states
\* How far a coordinator has come: 0 NOT_STARTED, 1 TABLES_ENSURED (both
\* creations joined, the task assigned), 2 SCHEMA_AGREED (the wait returned
\* and create_default_role_if_missing was called), 3 DEFAULT_ROLE_ENSURED.
Rank(w) ==
    IF tpc[w] = "done" THEN 3
    ELSE IF run[w].result # "none" THEN 2
    ELSE IF tpc[w] # "none" THEN 1
    ELSE 0

\* C15: a coordinator's states are entered in the order NOT_STARTED,
\* TABLES_ENSURED, SCHEMA_AGREED, DEFAULT_ROLE_ENSURED, one at a time; the
\* task exists only once both table creations are joined, and the default
\* role's check or insert is issued only after that and after the wait for
\* schema agreement has returned.
C15_StatesInOrder ==
    /\ [][\A w \in Workers : Rank(w)' \in {Rank(w), Rank(w) + 1}]_vars
    /\ [](\A w \in Workers :
            /\ Rank(w) >= 1 => (tcreated[w] = Tables /\ Tables \subseteq tables)
            /\ (Rank(w) >= 2 \/ tpc[w] \in {"check", "insert"})
                  => (tcreated[w] = Tables /\ Tables \subseteq tables /\ agreed))

\* A coordinator went through all four states and inserted the default role.
C15_Witness ==
    /\ Rank(Coordinator1) = 3
    /\ run[Coordinator1].created
    /\ Rank(Coordinator2) = 1

\* C19: once stop() has completed, the coordinator's task issues no further
\* request: no wait for schema agreement returns, no default-role check and no
\* default-role insert is made by it, wherever stop() was called.
StopCompleted(w) == stoppc[w] \notin {"no", "waiting"}
IssuesRequest(w) ==
    \/ tpc[w] = "wait" /\ tpc'[w] = "check"
    \/ tpc[w] \in {"check", "insert"} /\ tpc'[w] # tpc[w]
    \/ run'[w] # run[w]
C19_NothingAfterStop ==
    [][\A w \in Workers : StopCompleted(w) => ~IssuesRequest(w)]_vars

\* stop() completed before the task was assigned; the task now enters its
\* wait with the schema already agreed.
C19_Witness ==
    \E w \in Workers :
        /\ stoppc[w] = "ok"
        /\ tpc[w] = "wait"
        /\ agreed
        /\ runs[w] = 1

\* C20: with the coordinators the only writers, a default-role row whose
\* can_login has a value, whatever it is, is never written: no insert is
\* issued and the row stays as it was; an insert is issued only when the row
\* was absent or its can_login null.
C20_SetCanLoginIsKept ==
    (seed.row /\ seed.can_login # "null")
        => /\ DefaultRow = seed
           /\ \A w \in Workers : ~run[w].wrote

\* Both coordinators completed over a default role stored with both flags
\* false.
C20_Witness ==
    /\ seed.row /\ seed.can_login = "false" /\ seed.is_superuser = "false"
    /\ tpc[Coordinator1] = "done" /\ tpc[Coordinator2] = "done"
    /\ DefaultRow.can_login = "false"

\* C18: no step of this core (a facade operation or a bootstrap step) removes
\* a row of the roles table or changes a member_of set; only the external
\* authenticator's write does. create and create_or_replace write their
\* role's two flags and nothing else, whether or not the row existed.
ExternalWrite == \E r \in Names, members \in SUBSET Names : external_write(r, members)
C18_RowsKeptMembersKept ==
    [][\/ ExternalWrite
       \/ /\ \A r \in Names : /\ roles[r].row => roles'[r].row
                              /\ roles'[r].member_of = roles[r].member_of
          /\ (ret = Idle /\ ret'.op \in {"create", "create_or_replace"})
                => /\ roles'[ret'.arg].row
                   /\ roles'[ret'.arg].is_superuser \in {"true", "false"}
                   /\ roles'[ret'.arg].can_login \in {"true", "false"}
                   /\ \A r \in Names \ {ret'.arg} : roles'[r] = roles[r]]_vars

\* create_or_replace has just overwritten the flags of a role that had a row
\* with memberships, and the default role's row was inserted by the bootstrap.
C18_Witness ==
    /\ ret.op = "create_or_replace" /\ ret.arg = "alice"
    /\ roles["alice"].member_of = {"bob"}
    /\ roles["alice"].is_superuser = "true"
    /\ run[DirCoordinator].created

\* C16 as stated: without stop(), with schema agreement reached and the store
\* available from some point on, the default role's row eventually exists
\* with is_superuser = true and can_login = true.
C16_EventuallyBothTrue ==
    <>(/\ DefaultRow.row
       /\ DefaultRow.is_superuser = "true"
       /\ DefaultRow.can_login = "true")

\* C16, amended: under the same conditions every coordinator's bootstrap
\* eventually completes, however many of its runs failed before, and from
\* then on the default role's row exists with a can_login value; both flags
\* are true when the row was absent or its can_login null at the start. A run
\* that failed with unavailable is followed by a completed bootstrap.
SeedQualifies == seed.row /\ seed.can_login # "null"
C16_BootstrapCompletes ==
    /\ <>[](/\ \A w \in Workers : once_among_shards(w) => tpc[w] = "done"
            /\ DefaultRow.row
            /\ DefaultRow.can_login # "null"
            /\ ~SeedQualifies => /\ DefaultRow.is_superuser = "true"
                                 /\ DefaultRow.can_login = "true")
    /\ \A w \in Workers : (run[w].result = "unavailable") ~> (tpc[w] = "done")

\* A coordinator completed on its last run, after a failed one, and the
\* default role absent at the start now has both flags true.
C16_Witness ==
    /\ ~seed.row
    /\ tpc[Coordinator1] = "done"
    /\ runs[Coordinator1] = MaxRuns
    /\ run[Coordinator1].created
    /\ DefaultRow.is_superuser = "true" /\ DefaultRow.can_login = "true"

\* -------------------------------------------------- query_attribute_for_all
\* list_all() by the history of writes: every role written and every group
\* named in a written member_of.
ListedByHistory ==
    {r \in Names : written[r].any} \cup UNION {written[r].member_of : r \in Names}

NoConcurrentWrite == qa.nw0 = nwrites

\* C14: a query_attribute_for_all(X) during which nothing was written returns
\* exactly the pairs (r, v) with r a role of list_all() and v the stored value
\* of X for r: a listed role without a value is omitted, and so is a value
\* set on a name that is neither a row nor a member_of entry.
C14_QueryAttributeForAll ==
    (qa.pc = "ready" /\ NoConcurrentWrite)
        => qa.got = {<<r, attrs[<<r, qa.attr>>]>> :
                        r \in {n \in ListedByHistory : attrs[<<n, qa.attr>>] # "null"}}

\* set_attribute gave bob, who is in no row and no member_of, a value; the
\* call then returned alice's value, omitting bob and the default role, which
\* has none.
C14_Witness ==
    /\ qa.pc = "ready" /\ NoConcurrentWrite
    /\ attrs[<<"bob", qa.attr>>] = "3"
    /\ "bob" \notin ListedByHistory
    /\ attrs[<<DEFAULT_SUPERUSER_NAME, qa.attr>>] = "null"
    /\ qa.got = {<<"alice", "1">>}

\* C17: with set_attribute and remove_attribute running during the call,
\* each of the call's reads adds the value stored for its role at that
\* moment, or nothing when none is stored, and no entry is added or changed
\* otherwise: every entry of the result was the stored value at its role's
\* own read. (That the result need not be the table of any one instant is the
\* state of C17_Witness.)
C17_EntriesReadIndividually ==
    [][qa.pc = "reading"
          => \/ qa'.got = qa.got /\ qa'.todo = qa.todo
             \/ \E r \in qa.todo :
                   /\ qa'.todo = qa.todo \ {r}
                   /\ qa'.got = qa.got \cup
                         (IF attrs[<<r, qa.attr>>] # "null"
                          THEN {<<r, attrs[<<r, qa.attr>>]>>} ELSE {})]_vars

\* A returned result that the attribute table held at no instant between the
\* call and its return.
C17_Witness ==
    /\ qa.pc = "ready"
    /\ qa.got # {}
    /\ qa.got \notin qa.snaps
    /\ ~NoConcurrentWrite

====
